---- MODULE Spec2Model ----
(***************************************************************************)
(* Subtitle acquisition pipeline of video-expert-analyzer:                 *)
(*   scripts/extract_subtitle_funasr.py   (resolver, embedded probe, OCR,  *)
(*                                          speech transcription)          *)
(*   scripts/fetch_bilibili_subtitle.py   (credential chain, platform      *)
(*                                          subtitle client)               *)
(* Strings are sequences of one-character strings.  Durations handed to    *)
(* the timestamp formatter are counted in ticks of 1/10000 s, so that the  *)
(* truncation to milliseconds is visible; the formatter and the splitter   *)
(* compute in binary64 as the code does.                                   *)
(***************************************************************************)
EXTENDS Integers, Sequences, FiniteSets, TLC

(***************************************************************************)
(* Bounds of the model                                                     *)
(***************************************************************************)
\* longest platform payload (items of the caption body)
MaxBody == 2
\* most text regions the OCR backend reports on one frame
MaxRegions == 2
\* longest video, in whole seconds
MaxDuration == 3
\* most segments returned by the speech model
MaxSegments == 2

(***************************************************************************)
(* Program constants                                                       *)
(***************************************************************************)
\* BV[a-zA-Z0-9]{10}
IdLen == 10
\* os.path.getsize(output_srt) > 10
MinSrtBytes == 10
\* subprocess.run(cmd, ..., timeout=60) around the fetch script
ScriptTimeout == 60
\* subprocess.run(yt-dlp ..., timeout=30)
YtdlpTimeout == 30
\* text_count >= 2
MinRegions == 2
\* range(0, int(duration), 2)
FrameInterval == 2
\* conf > 0.7, in hundredths
ConfThreshold == 70
\* len(current_chars) > 25
ClauseMax == 25

None == "None"

(***************************************************************************)
(* Generic helpers                                                         *)
(***************************************************************************)
Rep(c, n) == [i \in 1..n |-> c]

Last(s) == s[Len(s)]

Min(S) == CHOOSE x \in S : \A y \in S : x <= y

SeqsUpTo(S, n) == UNION {[1..k -> S] : k \in 0..n}

\* str.strip(): leading and trailing whitespace removed
IsSpace(c) == c = " "

Strip(s) ==
  LET idx == {i \in 1..Len(s) : ~IsSpace(s[i])}
  IN  IF idx = {} THEN <<>>
      ELSE SubSeq(s, Min(idx), CHOOSE j \in idx : \A k \in idx : k <= j)

\* dict.get(key): None when the key is absent
Get(d, k) == IF k \in DOMAIN d THEN d[k] ELSE None

\* Python truthiness of a str-or-None value
Truthy(x) == x # None /\ x # ""

EmptyDict == [k \in {} |-> ""]

\* d[k] = v on a dict
Put(d, k, v) == [x \in (DOMAIN d) \cup {k} |-> IF x = k THEN v ELSE d[x]]

(***************************************************************************)
(* extract_bvid: re.search(r'(BV[a-zA-Z0-9]{10})', s), leftmost match      *)
(***************************************************************************)
Alnum == {"B", "V", "1", "2", "x", "y", "v", "m"}

MatchAt(s, i) ==
  /\ i + 1 + IdLen <= Len(s)
  /\ s[i] = "B"
  /\ s[i + 1] = "V"
  /\ \A k \in 2..(IdLen + 1) : s[i + k] \in Alnum

extract_bvid(s) ==
  LET hits == {i \in 1..Len(s) : MatchAt(s, i)}
  IN  IF hits = {} THEN <<>> ELSE SubSeq(s, Min(hits), Min(hits) + 1 + IdLen)

\* sample source URLs
UrlEmpty == <<>>
UrlBV == <<"/", "B", "V", "1">> \o Rep("x", 9) \o <<"/">>
UrlShort == <<"/", "B", "V", "1">> \o Rep("x", 8) \o <<"/">>
UrlDouble == <<"B", "V", "B", "V", "1">> \o Rep("x", 9)
Urls == {UrlEmpty, UrlBV, UrlShort, UrlDouble}

\* sample video paths
PathPlain == <<"v", ".", "m">>
PathBV == <<"B", "V", "2">> \o Rep("y", 9) \o <<".", "m">>
PathBroken == <<"B", "V", "2", "y", "_">> \o Rep("y", 8)
Paths == {PathPlain, PathBV, PathBroken}

(***************************************************************************)
(* Binary64 arithmetic on small operands.  The quotients and products the  *)
(* code forms in floating point are followed with integers: the remainder  *)
(* of the 53-bit quotient tells on which side of the exact value the       *)
(* rounded one lies, and by how much.                                      *)
(***************************************************************************)
RECURSIVE Pow2(_)
Pow2(k) == IF k <= 0 THEN 1 ELSE 2 * Pow2(k - 1)

\* int.bit_length()
RECURSIVE BitLen(_)
BitLen(n) == IF n <= 0 THEN 0 ELSE 1 + BitLen(n \div 2)

\* 2^sh mod n, by squaring
RECURSIVE Pow2Mod(_, _)
Pow2Mod(sh, n) ==
  IF sh <= 0 THEN 1 % n
  ELSE ((Pow2Mod(sh \div 2, n) ^ 2) * (IF sh % 2 = 1 THEN 2 ELSE 1)) % n

\* (r * 2^sh) mod n
ShiftMod(r, n, sh) == (r * Pow2Mod(sh, n)) % n

\* for 0 < num < den, the e with 2^-e <= num/den < 2^-(e-1); 1 when num is 0
RECURSIVE BinExp(_, _)
BinExp(num, den) == IF num <= 0 \/ 2 * num >= den THEN 1 ELSE 1 + BinExp(2 * num, den)

(***************************************************************************)
(* Timestamp formatter.  The argument is the float nearest to a duration   *)
(* of `ticks` ticks of 1/10000 s (for a duration in whole milliseconds ms, *)
(* ms / 1000 is that float for ticks = 10 * ms).                           *)
(***************************************************************************)
\* int((seconds % 1) * 1000).  seconds % 1 is exact; the product is rounded.  When the
\* duration is not a whole number of milliseconds the product is far from an integer and
\* int() truncates it.  When it is k whole milliseconds past the second, the product is
\* k + 1000 * (seconds - ticks/10000): if seconds was rounded down (remainder r of the
\* 53-bit quotient, 0 < 2r < 10000) by more than half the spacing of the floats below k,
\* the product is a float below k and int() gives k - 1.
Millis(ticks) ==
  LET S == ticks \div 10000
      F == ticks % 10000
      k == F \div 10
      e == BinExp(F, 10000)
      s == IF S > 0 THEN 53 - BitLen(S) ELSE 52 + e
      r == ShiftMod(F, 10000, s)
      B == BitLen(k - 1)
      x == 1 + BitLen(S) - B
      below == IF S > 0
               THEN (IF x >= 0 THEN r * Pow2(IF x < 4 THEN x ELSE 4) > 10
                               ELSE r > 10 * Pow2(0 - x))
               ELSE 4 * r > 10 * Pow2(e + B)
  IN  IF F > 0 /\ F % 10 = 0 /\ r > 0 /\ 2 * r < 10000 /\ below THEN k - 1 ELSE k

format_timestamp(ticks) ==
  [h  |-> ticks \div 36000000,
   m  |-> (ticks % 36000000) \div 600000,
   s  |-> (ticks % 600000) \div 10000,
   ms |-> Millis(ticks)]

_format_srt_timestamp(ticks) ==
  [h  |-> ticks \div 36000000,
   m  |-> (ticks % 36000000) \div 600000,
   s  |-> (ticks % 600000) \div 10000,
   ms |-> Millis(ticks)]

\* the millisecond value a reader of "HH:MM:SS,mmm" gets
ParseMs(ts) == ((ts.h * 60 + ts.m) * 60 + ts.s) * 1000 + ts.ms

\* number of decimal digits of a positive index
DigitLen(n) == IF n < 10 THEN 1 ELSE IF n < 100 THEN 2 ELSE 3

\* bytes of "{index}\n{start} --> {end}\n{text}\n\n" (12 + 5 + 12 for the time line)
RowBytes(r) == DigitLen(r.index) + 1 + 29 + 1 + Len(r.text) + 2

RECURSIVE SrtSize(_)
SrtSize(rows) == IF rows = <<>> THEN 0 ELSE RowBytes(Head(rows)) + SrtSize(Tail(rows))

(***************************************************************************)
(* Cookie files (Netscape format) and their parser                         *)
(***************************************************************************)
\* "needle in hay" on strings
IsInfix(needle, hay) ==
  \E i \in 0..(Len(hay) - Len(needle)) :
    \A k \in 1..Len(needle) : hay[i + k] = needle[k]

BiliDomain == <<".", "b">>

\* one line of a cookie file: a comment, or tab-separated fields
CookieLines ==
  {[comment |-> TRUE, fields |-> 1, domain |-> <<>>, name |-> "", value |-> ""],
   [comment |-> FALSE, fields |-> 7, domain |-> <<".", "b">>, name |-> "SESSDATA", value |-> "tok"],
   [comment |-> FALSE, fields |-> 7, domain |-> <<"w", ".", "b">>, name |-> "SESSDATA", value |-> ""],
   [comment |-> FALSE, fields |-> 7, domain |-> <<".", "b">>, name |-> "bili_jct", value |-> "csrf"],
   [comment |-> FALSE, fields |-> 7, domain |-> <<".", "e">>, name |-> "SESSDATA", value |-> "tok"],
   [comment |-> FALSE, fields |-> 6, domain |-> <<".", "b">>, name |-> "SESSDATA", value |-> "tok"]}

\* longest cookie file, in lines
MaxCookieLines == 2

\* a file: its lines, and how many of them can be read before an I/O error
\* (readable = Len(lines) when the whole file reads)
CookieFiles ==
  {[lines |-> l, readable |-> n] : l \in SeqsUpTo(CookieLines, MaxCookieLines), n \in 0..MaxCookieLines}

RECURSIVE ParseLines(_, _, _, _)
ParseLines(lines, i, n, filter) ==
  IF i > n THEN EmptyDict
  ELSE LET before == ParseLines(lines, i, n - 1, filter)
           line == lines[n]
       IN  IF /\ ~line.comment
              /\ line.fields >= 7
              /\ (filter = <<>> \/ IsInfix(filter, line.domain))
           THEN Put(before, line.name, line.value)
           ELSE before

\* the exception of open() or of a read is swallowed: what was parsed so far is returned
_parse_netscape_cookies(file, domain_filter) ==
  ParseLines(file.lines, 1, IF file.readable < Len(file.lines) THEN file.readable ELSE Len(file.lines),
             domain_filter)

(***************************************************************************)
(* Credential strategies.  Each takes what the environment does and        *)
(* returns [raised, value]: raised = an exception leaves the function.     *)
(***************************************************************************)
Ret(v) == [raised |-> FALSE, value |-> v]
Raise == [raised |-> TRUE, value |-> EmptyDict]

\* what the yt-dlp call does: subprocess.run raises FileNotFoundError ("notfound"),
\* TimeoutExpired ("timeout") or another exception ("error"), or yt-dlp returns ("ran")
\* and has left the file it exported, empty when it exported nothing
YtdlpOutcomes ==
  {[kind |-> k, file |-> [lines |-> <<>>, readable |-> 0]] : k \in {"notfound", "timeout", "error"}}
  \cup {[kind |-> "ran", file |-> f] : f \in CookieFiles}

get_cookies_via_ytdlp_reraise(o) ==
  IF o.kind = "ran"
  THEN IF Len(o.file.lines) > 0
       THEN LET cookies == _parse_netscape_cookies(o.file, BiliDomain)
            IN  IF Truthy(Get(cookies, "SESSDATA")) THEN Ret(cookies) ELSE Ret(EmptyDict)
       ELSE Ret(EmptyDict)
  ELSE IF o.kind = "timeout" THEN Raise ELSE Ret(EmptyDict)

get_cookies_via_ytdlp(o) ==
  IF o.kind = "ran"
  THEN IF Len(o.file.lines) > 0
       THEN LET cookies == _parse_netscape_cookies(o.file, BiliDomain)
            IN  IF Truthy(Get(cookies, "SESSDATA")) THEN Ret(cookies) ELSE Ret(EmptyDict)
       ELSE Ret(EmptyDict)
  ELSE Ret(EmptyDict)

\* cookies_file (line 77) still exists when get_cookies_via_ytdlp returns: the two
\* os.unlink calls (lines 99, 108) are in the try body, after subprocess.run
cookies_file_left(o) == o.kind \in {"notfound", "timeout", "error"}

\* browsers the in-process reader knows
browser_map == {"chrome", "firefox", "edge", "opera"}

\* a cookie of the browser's store
JarCookies ==
  {[domain |-> <<".", "b">>, name |-> "SESSDATA", value |-> "tok"],
   [domain |-> <<".", "b">>, name |-> "SESSDATA", value |-> ""],
   [domain |-> <<".", "b">>, name |-> "bili_jct", value |-> "csrf"],
   [domain |-> <<>>, name |-> "SESSDATA", value |-> "tok"]}

\* most cookies the store returns
MaxJar == 2

Cookie3Outcomes ==
  {[kind |-> k, jar |-> <<>>] : k \in {"import_error", "error"}}
  \cup {[kind |-> "ran", jar |-> j] : j \in SeqsUpTo(JarCookies, MaxJar)}

RECURSIVE JarDict(_, _)
JarDict(jar, n) ==
  IF n = 0 THEN EmptyDict
  ELSE LET before == JarDict(jar, n - 1)
           cookie == jar[n]
       IN  IF cookie.domain # <<>> /\ IsInfix(BiliDomain, cookie.domain)
           THEN Put(before, cookie.name, cookie.value)
           ELSE before

get_cookies_via_browser_cookie3(browser, o) ==
  IF o.kind = "ran"
  THEN IF browser \notin browser_map THEN Ret(EmptyDict)
       ELSE LET cookies == JarDict(o.jar, Len(o.jar))
            IN  IF Truthy(Get(cookies, "SESSDATA")) THEN Ret(cookies) ELSE Ret(EmptyDict)
  ELSE Ret(EmptyDict)

\* the operator's configuration: two environment variables and ~/.bilibili_cookies.txt
ConfigOutcomes ==
  {[sessdata |-> s, bili_jct |-> j, exists |-> e, file |-> f] :
     s \in {"", "tok"}, j \in {"", "csrf"}, e \in BOOLEAN, f \in CookieFiles}

get_cookies_from_config(o) ==
  IF o.sessdata # ""
  THEN Ret(IF o.bili_jct # ""
           THEN Put(Put(EmptyDict, "SESSDATA", o.sessdata), "bili_jct", o.bili_jct)
           ELSE Put(EmptyDict, "SESSDATA", o.sessdata))
  ELSE IF o.exists /\ Truthy(Get(_parse_netscape_cookies(o.file, BiliDomain), "SESSDATA"))
       THEN Ret(_parse_netscape_cookies(o.file, BiliDomain))
       ELSE Ret(EmptyDict)

\* browsers = [preferred] + the defaults not already in the list
DefaultBrowsers == <<"chrome", "firefox", "edge", "safari">>

RECURSIVE BrowserLoop(_, _)
BrowserLoop(browsers, i) ==
  IF i > Len(DefaultBrowsers) THEN browsers
  ELSE BrowserLoop(IF \E k \in 1..Len(browsers) : browsers[k] = DefaultBrowsers[i]
                   THEN browsers
                   ELSE Append(browsers, DefaultBrowsers[i]),
                   i + 1)

\* the defaults appended without the membership test
BrowserListRepeating(preferred_browser) == <<preferred_browser>> \o DefaultBrowsers

BrowserList(preferred_browser) == BrowserLoop(<<preferred_browser>>, 1)

(***************************************************************************)
(* Platform subtitle client: fetch_subtitle                                *)
(***************************************************************************)
\* one item of the caption payload: {from, to, content}, times in ticks
BodyItems ==
  {[from |-> f, to |-> 25004, content |-> c] : f \in {0, 10000}, c \in {<<" ">>, <<"a">>}}

\* for i, item in enumerate(body, 1): rows with non-empty content are written under i
RECURSIVE FetchRowsFrom(_, _)
FetchRowsFrom(body, i) ==
  IF i > Len(body) THEN <<>>
  ELSE (IF Strip(body[i].content) # <<>>
        THEN <<[index |-> i,
                start |-> _format_srt_timestamp(body[i].from),
                end   |-> _format_srt_timestamp(body[i].to),
                text  |-> Strip(body[i].content)]>>
        ELSE <<>>) \o FetchRowsFrom(body, i + 1)

FetchRows(body) == FetchRowsFrom(body, 1)

\* longest track listing
MaxTracks == 2

\* s.get("lan") in ("ai-zh", "zh-Hans", "zh-CN", "zh")
PreferredLans == {"ai-zh", "zh-Hans", "zh-CN", "zh"}

\* language codes of the listed tracks
Lans == {"en", "zh-CN", "ai-zh"}

\* chosen = subtitles[0]; for s in subtitles: if s.get("lan") in (...): chosen = s; break
\* (the position of the chosen track, 1-based)
RECURSIVE ChooseLoop(_, _)
ChooseLoop(subs, i) ==
  IF i > Len(subs) THEN 1
  ELSE IF subs[i] \in PreferredLans THEN i
  ELSE ChooseLoop(subs, i + 1)

\* the loop takes the last track of a preferred language
ChooseTrackLast(subs) ==
  IF \E i \in 1..Len(subs) : subs[i] \in PreferredLans
  THEN CHOOSE i \in 1..Len(subs) :
         subs[i] \in PreferredLans /\ \A j \in 1..Len(subs) : subs[j] \in PreferredLans => j <= i
  ELSE 1

ChooseTrack(subs) == ChooseLoop(subs, 1)

\* steps 1 to 3 of fetch_subtitle: the request that fails ("pagelist", "view", "list"),
\* an empty listing ("no_tracks"), or the listing of the tracks by language code
\* (url_ok: the chosen track's subtitle_url is not empty)
ListOutcomes ==
  {[stage |-> st, tracks |-> <<>>, url_ok |-> FALSE] : st \in {"pagelist", "view", "list", "no_tracks"}}
  \cup {[stage |-> "listed", tracks |-> l, url_ok |-> u] :
          l \in SeqsUpTo(Lans, MaxTracks) \ {<<>>}, u \in BOOLEAN}

\* steps 4 and 5: the download fails ("download"), the payload's body is a non-empty
\* list whose first item is not a caption object ("malformed"), or it is the list body
\* (writable: open(output_srt, 'w') succeeds)
FetchOutcomes ==
  {[stage |-> st, body |-> <<>>, writable |-> w] : st \in {"download", "malformed"}, w \in BOOLEAN}
  \cup {[stage |-> "body", body |-> b, writable |-> w] :
          b \in SeqsUpTo(BodyItems, MaxBody), w \in BOOLEAN}

\* HTTP requests made up to and including the step
CallsOf(stage) ==
  CASE stage = "pagelist" -> 1
    [] stage = "view" -> 2
    [] stage \in {"list", "no_tracks", "no_url", "listed"} -> 3
    [] OTHER -> 4

\* the download and the conversion:
\* [ok: the return value, wrote: the output was opened for writing, rows]
fetch_subtitle(o) ==
  IF o.stage = "download" \/ (o.stage = "body" /\ o.body = <<>>) \/ ~o.writable
  THEN [ok |-> FALSE, wrote |-> FALSE, rows |-> <<>>]
  ELSE IF o.stage = "malformed"
       THEN [ok |-> FALSE, wrote |-> TRUE, rows |-> <<>>]
       ELSE [ok |-> TRUE, wrote |-> TRUE, rows |-> FetchRows(o.body)]

(***************************************************************************)
(* State                                                                   *)
(***************************************************************************)
VARIABLES
  video_url,   \* smart_subtitle_extraction's arguments
  video_path,
  pc,          \* position of the resolver
  bvid,
  tried,       \* tiers started so far, in order
  outcome,     \* per tier: "none", "skipped", "failed", "ok", "raised"
  result,      \* the returned (success, mode), <<>> before the return
  outfile,     \* the file at output_srt: [by: who wrote it last, rows]
  video,       \* the video's streams: "unseen", "has_sub", "no_sub"
  burned,      \* the detection gate: "unseen", "capture_failed", "negative", "positive"
  asr_seen,    \* what the transcription tier met: [kind, writable, unlinked, entries]
  t,           \* OCR extraction: the sampled second
  duration,
  subtitles,
  parent,      \* who runs the fetch script: "resolver" or "cli"
  spc,         \* position of the fetch script
  arg_input,   \* its arguments
  preferred,
  browsers,
  bi,          \* index of the browser being tried
  attempts,    \* credential attempts so far: [strategy, browser, ok]
  cookies,
  elapsed,     \* seconds the script has run
  requests,    \* HTTP requests sent to the platform
  exitcode,
  tracks,      \* fetch_subtitle: the listed tracks (the local subtitles), by language code
  chosen,      \* fetch_subtitle: position of the chosen track, 0 before the choice
  downloaded,  \* language codes of the tracks the script has downloaded
  tmp,         \* temporary files this code created that still exist: "cookies", "frame", "audio"
  seen,        \* the frame the OCR loop has just worked on (kept by the traced loop only)
  splitter,    \* _split_text_by_punctuation called on its own: its arguments and locals
  stamp        \* a timestamp formatter called on its own: [fn, seconds, out, again]

inputVars == <<video_url, video_path>>
unitVars == <<splitter, stamp>>
resolverVars == <<pc, bvid, tried, outcome, result, video, burned, asr_seen>>
ocrVars == <<t, duration, subtitles>>
fetchVars == <<tracks, chosen, downloaded>>
scriptVars == <<parent, spc, arg_input, preferred, browsers, bi, attempts, cookies, elapsed, exitcode, fetchVars>>
vars == <<inputVars, resolverVars, ocrVars, scriptVars, outfile, requests, tmp, seen, unitVars>>

Tiers == <<"bilibili_api", "embedded", "ocr", "funasr">>
TierSet == {Tiers[i] : i \in 1..Len(Tiers)}

NoFile == [by |-> "none", rows |-> <<>>]
\* a file left at output_srt by an earlier run
StaleRows == <<[index |-> 1, start |-> format_timestamp(0), end |-> format_timestamp(10000), text |-> <<"o">>]>>
StaleFile == [by |-> "stale", rows |-> StaleRows]

NoAsr == [kind |-> "none", writable |-> FALSE, unlinked |-> FALSE, entries |-> 0]

\* no call of the splitter under way
NoSplit ==
  [text |-> <<>>, timestamps |-> <<>>, char_idx |-> 0, current_start_idx |-> 0,
   current_chars |-> <<>>, sentences |-> <<>>]

\* no call of a formatter under way; out and again hold the formatted timestamp once it exists
NoStamp == [fn |-> None, seconds |-> 0, out |-> <<>>, again |-> <<>>]

UnitIdle ==
  /\ splitter = NoSplit
  /\ stamp = NoStamp

ScriptIdle ==
  /\ spc = "idle"
  /\ arg_input = <<>>
  /\ preferred = "chrome"
  /\ browsers = <<>>
  /\ bi = 0
  /\ attempts = <<>>
  /\ cookies = EmptyDict
  /\ elapsed = 0
  /\ requests = 0
  /\ exitcode = -1
  /\ tracks = <<>>
  /\ chosen = 0
  /\ downloaded = <<>>

ResolverIdle ==
  /\ bvid = <<>>
  /\ tried = <<>>
  /\ outcome = [x \in TierSet |-> "none"]
  /\ result = <<>>
  /\ video = "unseen"
  /\ burned = "unseen"
  /\ asr_seen = NoAsr
  /\ t = 0
  /\ duration = 0
  /\ subtitles = <<>>

\* smart_subtitle_extraction(video_path, output_srt, video_url) is called
Init ==
  /\ video_url \in Urls
  /\ video_path \in Paths
  /\ outfile \in {NoFile, StaleFile}
  /\ pc = "start"
  /\ parent = "resolver"
  /\ ResolverIdle
  /\ ScriptIdle
  /\ tmp = {}
  /\ seen = <<>>
  /\ UnitIdle

(***************************************************************************)
(* fetch_bilibili_subtitle.py: main, get_bilibili_cookies, fetch_subtitle  *)
(***************************************************************************)
\* the script is running and its parent has not hit the 60 s limit
ScriptAlive ==
  /\ spc \notin {"idle", "exited", "raised", "gone"}
  /\ ~(parent = "resolver" /\ elapsed >= ScriptTimeout)

Exit(code) ==
  /\ spc' = "exited"
  /\ exitcode' = code

\* main: bvid = extract_bvid(args.input)
MainParse ==
  /\ ScriptAlive
  /\ spc = "main"
  /\ IF extract_bvid(arg_input) = <<>>
     THEN Exit(1)
     ELSE spc' = "cookies" /\ UNCHANGED exitcode
  /\ UNCHANGED <<inputVars, unitVars, seen, tmp, resolverVars, ocrVars, outfile, requests>>
  /\ UNCHANGED <<parent, arg_input, preferred, browsers, bi, attempts, cookies, elapsed, fetchVars>>

\* get_bilibili_cookies: the browser list
ChainStart ==
  /\ ScriptAlive
  /\ spc = "cookies"
  /\ browsers' = BrowserList(preferred)
  /\ bi' = 1
  /\ spc' = "s1"
  /\ UNCHANGED <<inputVars, unitVars, seen, tmp, resolverVars, ocrVars, outfile, requests>>
  /\ UNCHANGED <<parent, arg_input, preferred, attempts, cookies, elapsed, exitcode, fetchVars>>

\* after an attempt of strategy s on browsers[bi] that returned r:
\* return the cookies when they hold SESSDATA, else go on; return {} after strategy 3
AfterAttempt(s, r, next) ==
  /\ attempts' = Append(attempts, [strategy |-> s,
                                   browser |-> IF s = 3 THEN "-" ELSE browsers[bi],
                                   ok |-> ~r.raised /\ Truthy(Get(r.value, "SESSDATA"))])
  /\ cookies' = IF ~r.raised /\ ~Truthy(Get(r.value, "SESSDATA")) /\ s = 3
                THEN EmptyDict
                ELSE r.value
  /\ IF r.raised
     THEN spc' = "raised" /\ UNCHANGED bi
     ELSE IF Truthy(Get(r.value, "SESSDATA"))
          THEN spc' = "checked" /\ UNCHANGED bi
          ELSE IF s < 3 /\ bi < Len(browsers)
               THEN bi' = bi + 1 /\ UNCHANGED spc
               ELSE bi' = 1 /\ spc' = next

\* what one call of get_cookies_via_ytdlp does: its return, how it ended
YtdlpEffects == {[r |-> get_cookies_via_ytdlp(o), kind |-> o.kind] : o \in YtdlpOutcomes}

\* strategy 1 on the next browser
Strategy1 ==
  /\ ScriptAlive
  /\ spc = "s1"
  /\ \E e \in YtdlpEffects :
       /\ AfterAttempt(1, e.r, "s2")
       /\ elapsed' = IF e.kind = "timeout" THEN elapsed + YtdlpTimeout ELSE elapsed
       /\ tmp' = IF cookies_file_left(e) THEN tmp \cup {"cookies"} ELSE tmp
  /\ UNCHANGED <<inputVars, unitVars, seen, resolverVars, ocrVars, outfile, requests>>
  /\ UNCHANGED <<parent, arg_input, preferred, browsers, exitcode, fetchVars>>

\* strategy 2 on the next browser
Strategy2 ==
  /\ ScriptAlive
  /\ spc = "s2"
  /\ \E o \in Cookie3Outcomes :
       AfterAttempt(2, get_cookies_via_browser_cookie3(browsers[bi], o), "s3")
  /\ UNCHANGED <<inputVars, unitVars, seen, tmp, resolverVars, ocrVars, outfile, requests>>
  /\ UNCHANGED <<parent, arg_input, preferred, browsers, elapsed, exitcode, fetchVars>>

\* what get_cookies_from_config can return
ConfigEffects == {get_cookies_from_config(o) : o \in ConfigOutcomes}

\* strategy 3, then return {} when it fails too
Strategy3 ==
  /\ ScriptAlive
  /\ spc = "s3"
  /\ \E r \in ConfigEffects :
       AfterAttempt(3, r, "checked")
  /\ UNCHANGED <<inputVars, unitVars, seen, tmp, resolverVars, ocrVars, outfile, requests>>
  /\ UNCHANGED <<parent, arg_input, preferred, browsers, elapsed, exitcode, fetchVars>>

\* main: if not cookies.get("SESSDATA"): sys.exit(1)
MainCheck ==
  /\ ScriptAlive
  /\ spc = "checked"
  /\ IF ~Truthy(Get(cookies, "SESSDATA"))
     THEN Exit(1)
     ELSE spc' = "fetch" /\ UNCHANGED exitcode
  /\ UNCHANGED <<inputVars, unitVars, seen, tmp, resolverVars, ocrVars, outfile, requests>>
  /\ UNCHANGED <<parent, arg_input, preferred, browsers, bi, attempts, cookies, elapsed, fetchVars>>

\* main: success = fetch_subtitle(bvid, cookies, args.output), up to the choice of the
\* track; sys.exit(1) when it returns False there
MainFetch ==
  /\ ScriptAlive
  /\ spc = "fetch"
  /\ \E o \in ListOutcomes :
       /\ requests' = requests + CallsOf(o.stage)
       /\ IF o.stage = "listed" /\ o.url_ok
          THEN /\ tracks' = o.tracks
               /\ chosen' = ChooseTrack(o.tracks)
               /\ spc' = "download"
               /\ UNCHANGED exitcode
          ELSE /\ Exit(1)
               /\ UNCHANGED <<tracks, chosen>>
  /\ UNCHANGED <<inputVars, unitVars, seen, tmp, resolverVars, ocrVars, outfile, downloaded>>
  /\ UNCHANGED <<parent, arg_input, preferred, browsers, bi, attempts, cookies, elapsed>>

\* what the download and the conversion can come to
DownloadEffects == {fetch_subtitle(o) : o \in FetchOutcomes}

\* fetch_subtitle from the download of the chosen track on; sys.exit(0 if success else 1)
\* (the locals of fetch_subtitle are gone when it returns)
FetchDownload ==
  /\ ScriptAlive
  /\ spc = "download"
  /\ \E r \in DownloadEffects :
       /\ outfile' = IF r.wrote THEN [by |-> "bilibili_api", rows |-> r.rows] ELSE outfile
       /\ Exit(IF r.ok THEN 0 ELSE 1)
  /\ requests' = requests + 1
  /\ downloaded' = Append(downloaded, tracks[chosen])
  /\ tracks' = <<>>
  /\ chosen' = 0
  /\ UNCHANGED <<inputVars, unitVars, seen, tmp, resolverVars, ocrVars>>
  /\ UNCHANGED <<parent, arg_input, preferred, browsers, bi, attempts, cookies, elapsed>>

ScriptNext ==
  \/ MainParse
  \/ ChainStart
  \/ Strategy1
  \/ Strategy2
  \/ Strategy3
  \/ MainCheck
  \/ MainFetch
  \/ FetchDownload

\* python fetch_bilibili_subtitle.py <input> <output> [--browser b]
InitFetch ==
  /\ video_url = UrlEmpty
  /\ video_path = PathPlain
  /\ outfile \in {NoFile, StaleFile}
  /\ pc = "cli"
  /\ parent = "cli"
  /\ ResolverIdle
  /\ spc = "main"
  /\ arg_input \in Urls
  /\ preferred \in {"chrome", "firefox", "edge", "safari", "opera"}
  /\ browsers = <<>>
  /\ bi = 0
  /\ attempts = <<>>
  /\ cookies = EmptyDict
  /\ elapsed = 0
  /\ requests = 0
  /\ exitcode = -1
  /\ tracks = <<>>
  /\ chosen = 0
  /\ downloaded = <<>>
  /\ tmp = {}
  /\ seen = <<>>
  /\ UnitIdle

SpecFetch == InitFetch /\ [][ScriptNext]_vars

(***************************************************************************)
(* Burned-in caption detector / extractor                                  *)
(***************************************************************************)
\* a confidence as the OCR backend hands it over, in hundredths:
\* a float, a string (numeric or not), or None
ConfValues ==
  {[type |-> "float", parsable |-> TRUE, val |-> 81],
   [type |-> "str", parsable |-> TRUE, val |-> 81],
   [type |-> "float", parsable |-> TRUE, val |-> 70],
   [type |-> "str", parsable |-> FALSE, val |-> 0],
   [type |-> "none", parsable |-> FALSE, val |-> 0]}

\* only a float is taken as a number
ToFloatOfFloats(confidence) ==
  IF confidence.type = "float" THEN confidence.val ELSE 0

\* try: conf = float(confidence) / except (ValueError, TypeError): conf = 0.0
ToFloat(confidence) ==
  IF confidence.type = "none" THEN 0
  ELSE IF confidence.type = "str" /\ ~confidence.parsable THEN 0
  ELSE confidence.val

\* one detected line: (box, text, confidence); present = FALSE for a falsy line
OcrLines ==
  {[present |-> TRUE, text |-> <<"a">>, conf |-> c] : c \in ConfValues}

\* ' '.join(texts)
RECURSIVE Join(_)
Join(texts) ==
  IF texts = <<>> THEN <<>>
  ELSE IF Len(texts) = 1 THEN texts[1]
  ELSE texts[1] \o <<" ">> \o Join(Tail(texts))

\* the threshold taken as conf >= 0.7
RECURSIVE ConfidentTextsInclusive(_)
ConfidentTextsInclusive(lines) ==
  IF lines = <<>> THEN <<>>
  ELSE (IF Head(lines).present /\ ToFloat(Head(lines).conf) >= ConfThreshold
        THEN <<Head(lines).text>>
        ELSE <<>>) \o ConfidentTextsInclusive(Tail(lines))

RECURSIVE ConfidentTexts(_)
ConfidentTexts(lines) ==
  IF lines = <<>> THEN <<>>
  ELSE (IF Head(lines).present /\ ToFloat(Head(lines).conf) > ConfThreshold
        THEN <<Head(lines).text>>
        ELSE <<>>) \o ConfidentTexts(Tail(lines))

\* the loop body after ocr(frame_path): subtitles with the frame's entry, if any
FrameEntry(subs, sec, lines) ==
  LET texts == ConfidentTexts(lines)
  IN  IF texts # <<>>
      THEN Append(subs, [index |-> Len(subs) + 1,
                         start |-> format_timestamp(sec * 10000),
                         end   |-> format_timestamp((sec + FrameInterval) * 10000),
                         text  |-> Join(texts)])
      ELSE subs

\* check_burned_subtitle: o.error = the import or the OCR pass fails,
\* o.regions = the number of non-empty lines of result[0]
check_burned_subtitle(o) ==
  IF o.error THEN FALSE ELSE o.regions >= MinRegions

\* extract_burned_subtitle_ocr's return value once the loop is over and the file written
OcrReturn(subs) == TRUE

(***************************************************************************)
(* Speech transcription: sentence reconstruction                           *)
(***************************************************************************)
\* the non-ASCII punctuation marks are named by their code points
sentence_endings == {"U3002", "UFF01", "UFF1F", "!", "?", "UFF1B", ";", "U2026"}
clause_breaks == {"UFF0C", ",", "U3001"}

\* min(int(idx / text_len * ts_len), ts_len - 1) if ts_len > 0 else 0   (0-based).
\* idx / text_len is rounded to 53 bits, and so is its product with ts_len.  When
\* idx * ts_len is not a multiple of text_len the product is far from an integer and
\* int() gives the floor of the exact value.  When the exact value is an integer, the
\* quotient was rounded down (remainder r, 0 < 2r < text_len) and the loss exceeds half
\* the spacing of the floats below that integer, the product is a float below it and
\* int() gives one less.
TsIndex(idx, text_len, ts_len) ==
  IF ts_len > 0
  THEN LET exact == (idx * ts_len) \div text_len
           e == BinExp(idx, text_len)
           r == ShiftMod(idx, text_len, e + 52)
           B == BitLen(exact - 1)
           below == /\ idx > 0
                    /\ (idx * ts_len) % text_len = 0
                    /\ r > 0
                    /\ 2 * r < text_len
                    /\ 4 * ts_len * r > text_len * Pow2(e + B)
           k == IF below THEN exact - 1 ELSE exact
       IN  IF k < ts_len - 1 THEN k ELSE ts_len - 1
  ELSE 0

\* char in clause_breaks and len(current_chars) >= 25
IsClauseFromMax(char, current_chars) ==
  char \in clause_breaks /\ Len(current_chars) >= ClauseMax

\* char in clause_breaks and len(current_chars) > 25
IsClause(char, current_chars) ==
  char \in clause_breaks /\ Len(current_chars) > ClauseMax

\* the locals of _split_text_by_punctuation before its loop
SplitStart(text, timestamps) ==
  [text |-> text, timestamps |-> timestamps, char_idx |-> 0, current_start_idx |-> 0,
   current_chars |-> <<>>, sentences |-> <<>>]

\* ''.join(current_chars), without the strip()
SentTextRaw(current_chars) == current_chars

\* ''.join(current_chars).strip()
SentText(current_chars) == Strip(current_chars)

\* one round of `for char_idx, char in enumerate(text)`
SplitIter(st) ==
  LET char == st.text[st.char_idx + 1]
      ts_len == Len(st.timestamps)
      text_len == Len(st.text)
      current_chars == Append(st.current_chars, char)
      ts_idx == TsIndex(st.char_idx, text_len, ts_len)
      is_end == char \in sentence_endings
      is_clause == IsClause(char, current_chars)
      is_last == st.char_idx = text_len - 1
      sent_text == SentText(current_chars)
      start_ts_idx == TsIndex(st.current_start_idx, text_len, ts_len)
      end_ts_idx == ts_idx
      start_ms == IF ts_len > 0 THEN st.timestamps[start_ts_idx + 1][1] ELSE 0
      end_ms == IF ts_len > 0 THEN st.timestamps[end_ts_idx + 1][2] ELSE 0
  IN  IF is_end \/ is_clause \/ is_last
      THEN [st EXCEPT !.char_idx = @ + 1,
                      !.current_start_idx = st.char_idx + 1,
                      !.current_chars = <<>>,
                      !.sentences = IF sent_text # <<>>
                                    THEN Append(@, [text |-> sent_text,
                                                    start_ms |-> start_ms,
                                                    end_ms |-> end_ms])
                                    ELSE @]
      ELSE [st EXCEPT !.char_idx = @ + 1, !.current_chars = current_chars]

\* the loop to its end, and `return sentences`
RECURSIVE SplitLoop(_)
SplitLoop(st) ==
  IF st.char_idx >= Len(st.text) THEN st.sentences ELSE SplitLoop(SplitIter(st))

_split_text_by_punctuation(text, timestamps) == SplitLoop(SplitStart(text, timestamps))

\* one segment of model.generate's result; times in milliseconds
Segments ==
  {[text |-> <<"a">>, timestamp |-> <<>>,
    sentence_info |-> <<[text |-> <<"a">>, start |-> 1000, end |-> 2000]>>],
   [text |-> <<"a">>, timestamp |-> <<>>,
    sentence_info |-> <<[text |-> <<" ">>, start |-> 0, end |-> 1000],
                        [text |-> <<"b">>, start |-> 0, end |-> 1000]>>],
   [text |-> <<"a", "!", " ", "b">>, timestamp |-> <<<<500, 700>>, <<700, 900>>, <<900, 1001>>>>,
    sentence_info |-> <<>>],
   [text |-> <<" ", "a">>, timestamp |-> <<>>, sentence_info |-> <<>>],
   [text |-> <<" ">>, timestamp |-> <<<<0, 100>>>>, sentence_info |-> <<>>],
   [text |-> <<>>, timestamp |-> <<>>, sentence_info |-> <<>>],
   [text |-> <<"c">>, timestamp |-> <<<<0, 100>>>>,
    sentence_info |-> <<[text |-> <<" ">>, start |-> 0, end |-> 100]>>]}

\* rows written for one segment, numbered from count + 1
RECURSIVE SpanRows(_, _)
SpanRows(sentence_info, count) ==
  IF sentence_info = <<>> THEN <<>>
  ELSE LET sent == Head(sentence_info)
           sent_text == Strip(sent.text)
       IN  IF sent_text # <<>>
           THEN <<[index |-> count + 1,
                   start |-> format_timestamp(sent.start * 10),
                   end   |-> format_timestamp(sent.end * 10),
                   text  |-> sent_text]>> \o SpanRows(Tail(sentence_info), count + 1)
           ELSE SpanRows(Tail(sentence_info), count)

SplitRows(sentences, count) ==
  [i \in 1..Len(sentences) |->
     [index |-> count + i,
      start |-> format_timestamp(sentences[i].start_ms * 10),
      end   |-> format_timestamp(sentences[i].end_ms * 10),
      text  |-> sentences[i].text]]

SegmentRows(res, count) ==
  LET text == Strip(res.text)
  IN  IF res.sentence_info # <<>>
      THEN SpanRows(res.sentence_info, count)
      ELSE IF res.timestamp # <<>> /\ text # <<>>
           THEN SplitRows(_split_text_by_punctuation(text, res.timestamp), count)
           ELSE IF text # <<>>
                THEN <<[index |-> count + 1,
                        start |-> format_timestamp(0),
                        end   |-> format_timestamp(0),
                        text  |-> text]>>
                ELSE <<>>

\* for res in result: ... ; subtitle_count runs on across the segments
RECURSIVE AsrRowsFrom(_, _)
AsrRowsFrom(segs, count) ==
  IF segs = <<>> THEN <<>>
  ELSE LET rows == SegmentRows(Head(segs), count)
       IN  rows \o AsrRowsFrom(Tail(segs), count + Len(rows))

AsrRows(segs) == AsrRowsFrom(segs, 0)

(***************************************************************************)
(* extract_with_funasr                                                     *)
(***************************************************************************)
\* what the tier meets: a failing step, or the model's result with the two file operations
\* (writable: open(output_srt, 'w') succeeds; unlinked: os.unlink(audio_path) is reached
\* and succeeds)
AsrOutcomes ==
  {[kind |-> k, segs |-> <<>>, writable |-> FALSE, unlinked |-> FALSE] :
     k \in {"import_error", "audio_fail", "model_error", "generate_error"}}
  \cup {o \in {[kind |-> "ran", segs |-> g, writable |-> w, unlinked |-> u] :
                  g \in SeqsUpTo(Segments, MaxSegments), w \in BOOLEAN, u \in BOOLEAN} :
          o.unlinked => o.writable}

\* audio_path (line 377) still exists when extract_with_funasr returns: os.unlink
\* (line 431) is reached only after the output was written, and the import precedes
\* the creation of the file
audio_path_left(o) ==
  \/ o.kind \in {"audio_fail", "model_error", "generate_error"}
  \/ o.kind = "ran" /\ (~o.writable \/ ~o.unlinked)

\* return subtitle_count > 1
extract_with_funasr_plural(o) ==
  IF o.kind # "ran" \/ ~o.writable
  THEN [ok |-> FALSE, wrote |-> FALSE, rows |-> <<>>]
  ELSE [ok |-> o.unlinked /\ Len(AsrRows(o.segs)) > 1, wrote |-> TRUE, rows |-> AsrRows(o.segs)]

\* [ok: the return value, wrote: output_srt was opened for writing, rows]
extract_with_funasr(o) ==
  IF o.kind # "ran" \/ ~o.writable
  THEN [ok |-> FALSE, wrote |-> FALSE, rows |-> <<>>]
  ELSE [ok |-> o.unlinked /\ Len(AsrRows(o.segs)) > 0, wrote |-> TRUE, rows |-> AsrRows(o.segs)]

(***************************************************************************)
(* _simple_bilibili_fetch: the platform client without credentials         *)
(***************************************************************************)
RECURSIVE SimpleRowsFrom(_, _)
SimpleRowsFrom(body, i) ==
  IF i > Len(body) THEN <<>>
  ELSE (IF Strip(body[i].content) # <<>>
        THEN <<[index |-> i,
                start |-> format_timestamp(body[i].from),
                end   |-> format_timestamp(body[i].to),
                text  |-> Strip(body[i].content)]>>
        ELSE <<>>) \o SimpleRowsFrom(body, i + 1)

\* sub_url = subtitles[0].get("subtitle_url", ""): the first listed track, whatever its
\* language, and no test of the URL
_simple_bilibili_fetch(o) ==
  IF o.stage = "import_error"
  THEN [ok |-> FALSE, calls |-> 0, wrote |-> FALSE, rows |-> <<>>]
  ELSE IF o.stage \in {"pagelist", "view", "list", "no_tracks", "download"}
          \/ (o.stage = "body" /\ o.body = <<>>) \/ ~o.writable
       THEN [ok |-> FALSE, calls |-> CallsOf(o.stage), wrote |-> FALSE, rows |-> <<>>]
       ELSE IF o.stage = "malformed"
            THEN [ok |-> FALSE, calls |-> 4, wrote |-> TRUE, rows |-> <<>>]
            ELSE [ok |-> TRUE, calls |-> 4, wrote |-> TRUE, rows |-> SimpleRowsFrom(o.body, 1)]

SimpleOutcomes ==
  {[stage |-> st, body |-> <<>>, writable |-> TRUE] :
     st \in {"import_error", "pagelist", "view", "list", "no_tracks"}}
  \cup FetchOutcomes

(***************************************************************************)
(* smart_subtitle_extraction                                               *)
(***************************************************************************)
\* bvid = extract_bvid(video_url) or extract_bvid(video_path)
ResolveBvidPathFirst(url, path) ==
  IF extract_bvid(path) # <<>> THEN extract_bvid(path) ELSE extract_bvid(url)

ResolveBvid(url, path) ==
  IF extract_bvid(url) # <<>> THEN extract_bvid(url) ELSE extract_bvid(path)

\* where the resolver goes on when a tier has failed
AfterFailOcrFirst(tier) ==
  CASE tier = "bilibili_api" -> "ocr_detect"
    [] tier = "ocr" -> "embedded"
    [] tier = "embedded" -> "asr"
    [] OTHER -> "done"

AfterFail(tier) ==
  CASE tier = "bilibili_api" -> "embedded"
    [] tier = "embedded" -> "ocr_detect"
    [] tier = "ocr" -> "asr"
    [] OTHER -> "done"

\* the tier returned False: go on, or return (False, "failed") after the last tier
TierFailed(tier) ==
  /\ outcome' = [outcome EXCEPT ![tier] = "failed"]
  /\ pc' = AfterFail(tier)
  /\ result' = IF AfterFail(tier) = "done" THEN <<FALSE, "failed">> ELSE result

\* the return after a successful tier is missing: the resolver goes on
TierOkGoesOn(tier) ==
  /\ outcome' = [outcome EXCEPT ![tier] = "ok"]
  /\ pc' = AfterFail(tier)
  /\ result' = <<TRUE, tier>>

\* return True, <mode>
TierOk(tier) ==
  /\ outcome' = [outcome EXCEPT ![tier] = "ok"]
  /\ pc' = "done"
  /\ result' = <<TRUE, tier>>

\* an exception leaves smart_subtitle_extraction
TierRaised(tier) ==
  /\ outcome' = [outcome EXCEPT ![tier] = "raised"]
  /\ pc' = "raised"
  /\ UNCHANGED result

Step0 ==
  /\ pc = "start"
  /\ bvid' = ResolveBvid(video_url, video_path)
  /\ IF bvid' # <<>>
     THEN pc' = "platform" /\ UNCHANGED outcome
     ELSE pc' = "embedded" /\ outcome' = [outcome EXCEPT !["bilibili_api"] = "skipped"]
  /\ UNCHANGED <<inputVars, unitVars, seen, tmp, tried, result, video, burned, asr_seen, ocrVars, scriptVars, outfile, requests>>

\* get_bilibili_subtitle: run the fetch script when it is there
PlatformStart ==
  /\ pc = "platform"
  /\ tried' = Append(tried, "bilibili_api")
  /\ \E exists \in BOOLEAN, launched \in BOOLEAN :
       IF exists
       THEN IF launched
            THEN /\ pc' = "platform_wait"
                 /\ spc' = "main"
                 /\ arg_input' = bvid
                 /\ UNCHANGED <<outcome, result>>
            ELSE /\ TierFailed("bilibili_api")
                 /\ UNCHANGED <<spc, arg_input>>
       ELSE /\ pc' = "simple_fetch"
            /\ UNCHANGED <<outcome, result, spc, arg_input>>
  /\ UNCHANGED <<inputVars, unitVars, seen, tmp, bvid, video, burned, asr_seen, ocrVars, outfile, requests>>
  /\ UNCHANGED <<parent, preferred, browsers, bi, attempts, cookies, elapsed, exitcode, fetchVars>>

\* subprocess.run is over: the script's process, and its state, are gone
ScriptGone ==
  /\ spc' = "gone"
  /\ arg_input' = <<>>
  /\ browsers' = <<>>
  /\ bi' = 0
  /\ attempts' = <<>>
  /\ cookies' = EmptyDict
  /\ elapsed' = 0
  /\ exitcode' = -1
  /\ tracks' = <<>>
  /\ chosen' = 0
  /\ downloaded' = <<>>
  /\ UNCHANGED <<parent, preferred>>

\* the locals of extract_burned_subtitle_ocr are gone when it returns
OcrGone ==
  /\ t' = 0
  /\ duration' = 0
  /\ subtitles' = <<>>

\* os.path.exists(output_srt) and os.path.getsize(output_srt) > 10, whatever the return code
ScriptSucceededAnyCode(returncode, file) ==
  /\ file.by # "none"
  /\ SrtSize(file.rows) > MinSrtBytes

\* result.returncode == 0 and os.path.exists(output_srt) and os.path.getsize(output_srt) > 10
ScriptSucceeded(returncode, file) ==
  /\ returncode = 0
  /\ file.by # "none"
  /\ SrtSize(file.rows) > MinSrtBytes

PlatformReturn ==
  /\ pc = "platform_wait"
  /\ spc \in {"exited", "raised"}
  /\ IF ScriptSucceeded(IF spc = "exited" THEN exitcode ELSE 1, outfile)
     THEN TierOk("bilibili_api")
     ELSE TierFailed("bilibili_api")
  /\ ScriptGone
  /\ UNCHANGED <<inputVars, unitVars, seen, tmp, bvid, tried, video, burned, asr_seen, ocrVars, outfile, requests>>

\* except subprocess.TimeoutExpired: the script is killed at the limit
PlatformTimeout ==
  /\ pc = "platform_wait"
  /\ spc \notin {"idle", "exited", "raised", "gone"}
  /\ elapsed >= ScriptTimeout
  /\ ScriptGone
  /\ TierFailed("bilibili_api")
  /\ UNCHANGED <<inputVars, unitVars, seen, tmp, bvid, tried, video, burned, asr_seen, ocrVars, outfile, requests>>

SimpleFetch ==
  /\ pc = "simple_fetch"
  /\ \E o \in SimpleOutcomes :
       LET r == _simple_bilibili_fetch(o)
       IN  /\ requests' = requests + r.calls
           /\ outfile' = IF r.wrote THEN [by |-> "bilibili_api", rows |-> r.rows] ELSE outfile
           /\ IF r.ok THEN TierOk("bilibili_api") ELSE TierFailed("bilibili_api")
  /\ UNCHANGED <<inputVars, unitVars, seen, tmp, bvid, tried, video, burned, asr_seen, ocrVars, scriptVars>>

\* the track ffmpeg writes when it demuxes the first subtitle stream
EmbeddedRows ==
  <<[index |-> 1, start |-> format_timestamp(0), end |-> format_timestamp(10000), text |-> <<"e">>]>>

\* check_embedded_subtitle: (has_embedded, ...)
check_embedded_subtitle(probed, has_stream, demuxed) ==
  probed /\ has_stream /\ demuxed

\* step 1: the probe, the demux and the copy to output_srt
\* (same_path: output_srt is the very path the demux writes, <stem>_embedded.srt)
Embedded ==
  /\ pc = "embedded"
  /\ tried' = Append(tried, "embedded")
  /\ \E probed \in BOOLEAN, has_stream \in BOOLEAN, demuxed \in BOOLEAN, copied \in BOOLEAN,
        same_path \in BOOLEAN, truncated \in BOOLEAN :
       /\ video' = IF has_stream THEN "has_sub" ELSE "no_sub"
       /\ IF check_embedded_subtitle(probed, has_stream, demuxed)
          THEN IF same_path
               THEN /\ outfile' = [by |-> "embedded", rows |-> EmbeddedRows]
                    /\ TierOk("embedded")
               ELSE IF copied
                    THEN /\ outfile' = [by |-> "embedded", rows |-> EmbeddedRows]
                         /\ TierOk("embedded")
                    ELSE /\ TierRaised("embedded")
                         /\ UNCHANGED outfile
          ELSE /\ TierFailed("embedded")
               /\ outfile' = IF same_path /\ probed /\ has_stream /\ truncated
                             THEN [by |-> "embedded", rows |-> <<>>]
                             ELSE outfile
  /\ UNCHANGED <<inputVars, unitVars, seen, tmp, bvid, burned, asr_seen, ocrVars, scriptVars, requests>>

\* if has_burned: (line 491)
GateOpenAlways(has_burned) == TRUE

GateOpen(has_burned) == has_burned

\* step 2: the frame at 00:00:05, check_burned_subtitle, os.unlink(frame_path)
\* (~captured: capture_frame returned "" because ffmpeg failed, or is missing, after the
\* temporary file of line 171 was created; nothing deletes that file)
OcrDetect ==
  /\ pc = "ocr_detect"
  /\ tried' = Append(tried, "ocr")
  /\ \E captured \in BOOLEAN, unlinked \in BOOLEAN,
        o \in {[error |-> TRUE, regions |-> 0]} \cup {[error |-> FALSE, regions |-> n] : n \in 0..MaxRegions} :
       IF ~captured
       THEN /\ burned' = "capture_failed"
            /\ tmp' = tmp \cup {"frame"}
            /\ TierFailed("ocr")
       ELSE /\ burned' = IF check_burned_subtitle(o) THEN "positive" ELSE "negative"
            /\ IF ~unlinked
               THEN /\ TierRaised("ocr")
                    /\ tmp' = tmp \cup {"frame"}
               ELSE /\ UNCHANGED tmp
                    /\ IF GateOpen(check_burned_subtitle(o))
                       THEN pc' = "ocr_extract" /\ UNCHANGED <<outcome, result>>
                       ELSE TierFailed("ocr")
  /\ UNCHANGED <<inputVars, unitVars, seen, bvid, video, asr_seen, ocrVars, scriptVars, outfile, requests>>

\* extract_burned_subtitle_ocr up to the loop: import, duration = float(ffprobe's output)
OcrExtractStart ==
  /\ pc = "ocr_extract"
  /\ \E started \in BOOLEAN, d \in 0..MaxDuration :
       IF started
       THEN /\ duration' = d
            /\ t' = 0
            /\ subtitles' = <<>>
            /\ pc' = "ocr_loop"
            /\ UNCHANGED <<outcome, result>>
       ELSE /\ TierFailed("ocr")
            /\ UNCHANGED ocrVars
  /\ UNCHANGED <<inputVars, unitVars, seen, tmp, bvid, tried, video, burned, asr_seen, scriptVars, outfile, requests>>

\* what one round of the loop meets: capture_frame fails, ocr(frame_path) raises,
\* os.unlink(frame_path) raises, or the OCR pass returns the lines of the frame
FrameOutcomes(LineSet) ==
  {[kind |-> k, lines |-> <<>>] : k \in {"capture_failed", "ocr_error", "unlink_error"}}
  \cup {[kind |-> "ok", lines |-> l] : l \in SeqsUpTo(LineSet, MaxRegions)}

\* frame_path still exists when the round is over: os.unlink(frame_path) (line 266) is
\* the last statement of the round, and capture_frame deletes nothing when ffmpeg fails
frame_path_left(o) == o.kind \in {"capture_failed", "ocr_error", "unlink_error"}

\* one round of: for t in range(0, int(duration), 2)
OcrRound(o) ==
  /\ pc = "ocr_loop"
  /\ t < duration
  /\ tmp' = IF frame_path_left(o) THEN tmp \cup {"frame"} ELSE tmp
  /\ IF o.kind = "capture_failed"
     THEN /\ t' = t + FrameInterval
          /\ UNCHANGED <<pc, outcome, result, subtitles, duration>>
     ELSE IF o.kind \in {"ocr_error", "unlink_error"}
          THEN /\ TierFailed("ocr")
               /\ OcrGone
          ELSE /\ subtitles' = FrameEntry(subtitles, t, o.lines)
               /\ t' = t + FrameInterval
               /\ UNCHANGED <<pc, outcome, result, duration>>
  /\ UNCHANGED <<inputVars, unitVars, bvid, tried, video, burned, asr_seen, scriptVars, outfile, requests>>

OcrFrame ==
  /\ \E o \in FrameOutcomes(OcrLines) : OcrRound(o)
  /\ UNCHANGED seen

\* after the loop: write the SRT file and return
OcrWrite ==
  /\ pc = "ocr_loop"
  /\ t >= duration
  /\ \E writable \in BOOLEAN :
       IF writable
       THEN /\ outfile' = [by |-> "ocr", rows |-> subtitles]
            /\ IF OcrReturn(subtitles) THEN TierOk("ocr") ELSE TierFailed("ocr")
       ELSE /\ TierFailed("ocr")
            /\ UNCHANGED outfile
  /\ OcrGone
  /\ UNCHANGED <<inputVars, unitVars, seen, tmp, bvid, tried, video, burned, asr_seen, scriptVars, requests>>

\* what one call of extract_with_funasr does, as the resolver and the disk see it
AsrEffect(o) ==
  [kind |-> o.kind, writable |-> o.writable, unlinked |-> o.unlinked,
   entries |-> Len(AsrRows(o.segs)),
   r |-> extract_with_funasr(o),
   audio_left |-> audio_path_left(o)]

AsrEffects == {AsrEffect(o) : o \in AsrOutcomes}

\* step 3: extract_with_funasr, then return (False, "failed") when it fails too
AsrCall(e) ==
  /\ pc = "asr"
  /\ tried' = Append(tried, "funasr")
  /\ outfile' = IF e.r.wrote THEN [by |-> "funasr", rows |-> e.r.rows] ELSE outfile
  /\ asr_seen' = [kind |-> e.kind, writable |-> e.writable, unlinked |-> e.unlinked,
                  entries |-> e.entries]
  /\ tmp' = IF e.audio_left THEN tmp \cup {"audio"} ELSE tmp
  /\ IF e.r.ok THEN TierOk("funasr") ELSE TierFailed("funasr")
  /\ UNCHANGED <<inputVars, unitVars, bvid, video, burned, ocrVars, scriptVars, requests>>

Asr ==
  /\ \E e \in AsrEffects : AsrCall(e)
  /\ UNCHANGED seen

\* the positions whose next step starts with subprocess.run on ffprobe or ffmpeg, called
\* without a timeout argument: the stream probe and the demux (lines 144, 156), the frame
\* captures (line 178), the duration probe (line 227), the audio extraction (line 296)
UnboundedCalls == {"embedded", "ocr_detect", "ocr_extract", "ocr_loop", "asr"}

\* the tool never responds: subprocess.run does not return, and nothing interrupts it
ToolHangs ==
  /\ pc \in UnboundedCalls
  /\ pc = "ocr_loop" => t < duration
  /\ pc' = "waiting"
  /\ UNCHANGED <<inputVars, unitVars, seen, tmp, bvid, tried, outcome, result, video, burned,
                 asr_seen, ocrVars, scriptVars, outfile, requests>>

ResolverNext ==
  \/ Step0
  \/ PlatformStart
  \/ PlatformReturn
  \/ PlatformTimeout
  \/ SimpleFetch
  \/ Embedded
  \/ OcrDetect
  \/ OcrExtractStart
  \/ OcrFrame
  \/ OcrWrite
  \/ Asr

Next == ResolverNext \/ ScriptNext

Spec == Init /\ [][Next]_vars

\* the runs in which a tool may also never respond.  (Under Spec such a run is one that
\* stays at the call for ever; here it is a step, so that fairness tells it apart from a
\* run that simply has not gone on yet.)
NextLive == Next \/ ToolHangs

\* the interpreter and the script's process run on whenever they can
SpecLive == Init /\ [][NextLive]_vars /\ WF_vars(NextLive)

(***************************************************************************)
(* extract_burned_subtitle_ocr on its own, with the frame of each round    *)
(* kept in seen                                                            *)
(***************************************************************************)
\* detected lines whose text tells the confidence they came with: the float 0.81 ("f"),
\* the string "0.81" ("s"), the float 0.7 ("e"), a string that is no number ("x"),
\* None ("n"); and a falsy line
TaggedLines ==
  {[present |-> TRUE, text |-> <<"f">>, conf |-> [type |-> "float", parsable |-> TRUE, val |-> 81]],
   [present |-> TRUE, text |-> <<"s">>, conf |-> [type |-> "str", parsable |-> TRUE, val |-> 81]],
   [present |-> TRUE, text |-> <<"e">>, conf |-> [type |-> "float", parsable |-> TRUE, val |-> 70]],
   [present |-> TRUE, text |-> <<"x">>, conf |-> [type |-> "str", parsable |-> FALSE, val |-> 0]],
   [present |-> TRUE, text |-> <<"n">>, conf |-> [type |-> "none", parsable |-> FALSE, val |-> 0]],
   [present |-> FALSE, text |-> <<"z">>, conf |-> [type |-> "float", parsable |-> TRUE, val |-> 81]]}

OcrFrameTraced ==
  \E o \in FrameOutcomes(TaggedLines) :
    /\ OcrRound(o)
    /\ seen' = <<[t |-> t, kind |-> o.kind, lines |-> o.lines]>>

\* the resolver has passed the detection gate and calls extract_burned_subtitle_ocr
InitOcr ==
  /\ video_url = UrlEmpty
  /\ video_path = PathPlain
  /\ outfile \in {NoFile, StaleFile}
  /\ pc = "ocr_extract"
  /\ parent = "resolver"
  /\ bvid = <<>>
  /\ tried = <<"embedded", "ocr">>
  /\ outcome = [x \in TierSet |-> IF x = "bilibili_api" THEN "skipped"
                                   ELSE IF x = "embedded" THEN "failed" ELSE "none"]
  /\ result = <<>>
  /\ video = "no_sub"
  /\ burned = "positive"
  /\ asr_seen = NoAsr
  /\ t = 0
  /\ duration = 0
  /\ subtitles = <<>>
  /\ ScriptIdle
  /\ tmp = {}
  /\ seen = <<>>
  /\ UnitIdle

OcrNext ==
  \/ OcrExtractStart
  \/ OcrFrameTraced
  \/ OcrWrite

SpecOcr == InitOcr /\ [][OcrNext]_vars

(***************************************************************************)
(* extract_with_funasr on its own, with what the call met kept in seen     *)
(***************************************************************************)
AsrTraced ==
  \E o \in AsrOutcomes :
    /\ AsrCall(AsrEffect(o))
    /\ seen' = <<o>>

\* the first three tiers have failed and the resolver calls extract_with_funasr
InitAsr ==
  /\ video_url = UrlEmpty
  /\ video_path = PathPlain
  /\ outfile \in {NoFile, StaleFile}
  /\ pc = "asr"
  /\ parent = "resolver"
  /\ bvid = <<>>
  /\ tried = <<"embedded", "ocr">>
  /\ outcome = [x \in TierSet |-> IF x = "bilibili_api" THEN "skipped"
                                   ELSE IF x = "funasr" THEN "none" ELSE "failed"]
  /\ result = <<>>
  /\ video = "no_sub"
  /\ burned = "negative"
  /\ asr_seen = NoAsr
  /\ t = 0
  /\ duration = 0
  /\ subtitles = <<>>
  /\ ScriptIdle
  /\ tmp = {}
  /\ seen = <<>>
  /\ UnitIdle

SpecAsr == InitAsr /\ [][AsrTraced]_vars

(***************************************************************************)
(* _split_text_by_punctuation on its own, one round of its loop at a time  *)
(***************************************************************************)
\* longest run of plain characters before the first mark of a sample text
MaxRun == 26

\* the characters put after the first run: every mark of the two sets, a letter, a blank
\* and a full stop that is in neither set
SplitMarks == sentence_endings \cup clause_breaks \cup {"a", " ", "."}

\* lengths of the second run, and the characters that close the text
TailLens == {0, 1, 6, 13}
TailMarks == {"a", " ", "U3002"}

SplitTexts ==
  {Rep("a", p1) \o <<c1>> \o Rep("a", p2) \o <<c2>> :
     p1 \in 0..MaxRun, c1 \in SplitMarks, p2 \in TailLens, c2 \in TailMarks}

\* number of characters of text that are neither marks nor blanks
SpokenLen(text) ==
  Cardinality({i \in 1..Len(text) :
                 text[i] \notin sentence_endings \cup clause_breaks \cup {" ", "."}})

\* token timestamps [[start_ms, end_ms], ...]: n tokens of 100 ms, back to back
UniformTs(n) == [j \in 1..n |-> <<(j - 1) * 100, j * 100>>]

\* none, one per character, or one per spoken character
TsArrays(text) == {UniformTs(n) : n \in {0, Len(text), SpokenLen(text)}}

\* everything outside the function called on its own
UnitInit ==
  /\ video_url = UrlEmpty
  /\ video_path = PathPlain
  /\ outfile = NoFile
  /\ pc = "unit"
  /\ parent = "resolver"
  /\ ResolverIdle
  /\ ScriptIdle
  /\ tmp = {}
  /\ seen = <<>>

InitSplit ==
  /\ UnitInit
  /\ \E text \in SplitTexts : \E timestamps \in TsArrays(text) :
       splitter = SplitStart(text, timestamps)
  /\ stamp = NoStamp

\* one round of the loop
SplitStep ==
  /\ pc = "unit"
  /\ splitter.char_idx < Len(splitter.text)
  /\ splitter' = SplitIter(splitter)
  /\ UNCHANGED <<inputVars, resolverVars, ocrVars, scriptVars, outfile, requests, tmp, seen, stamp>>

SpecSplit == InitSplit /\ [][SplitStep]_vars

(***************************************************************************)
(* The timestamp formatters on their own: a duration is formatted, the     *)
(* string is parsed, and the parsed value is formatted again               *)
(***************************************************************************)
\* longest duration of the dense range, in ticks
MaxTicks == 12000

\* the dense range, and durations with minutes and hours
Durations ==
  (0..MaxTicks) \cup {600000 * 59 + 599990, 36000000 + 15, 36000000 * 2 + 600000 * 3 + 45678}

Formatters == {"format_timestamp", "_format_srt_timestamp"}

Formatted(fn, ticks) ==
  IF fn = "format_timestamp" THEN format_timestamp(ticks) ELSE _format_srt_timestamp(ticks)

InitFormat ==
  /\ UnitInit
  /\ splitter = NoSplit
  /\ \E fn \in Formatters : \E d \in Durations :
       stamp = [fn |-> fn, seconds |-> d, out |-> <<>>, again |-> <<>>]

\* the formatter is called on the duration
FormatCall ==
  /\ pc = "unit"
  /\ stamp.fn # None
  /\ stamp.out = <<>>
  /\ stamp' = [stamp EXCEPT !.out = <<Formatted(stamp.fn, stamp.seconds)>>]
  /\ UNCHANGED <<inputVars, resolverVars, ocrVars, scriptVars, outfile, requests, tmp, seen, splitter>>

\* the string is parsed to milliseconds, and ms / 1000 is formatted
FormatAgain ==
  /\ pc = "unit"
  /\ stamp.out # <<>>
  /\ stamp.again = <<>>
  /\ stamp' = [stamp EXCEPT !.again = <<Formatted(stamp.fn, ParseMs(stamp.out[1]) * 10)>>]
  /\ UNCHANGED <<inputVars, resolverVars, ocrVars, scriptVars, outfile, requests, tmp, seen, splitter>>

FormatNext == FormatCall \/ FormatAgain

SpecFormat == InitFormat /\ [][FormatNext]_vars

(***************************************************************************)
(* Properties                                                              *)
(***************************************************************************)
Rank(tier) == CHOOSE i \in 1..Len(Tiers) : Tiers[i] = tier

Started(tier) == \E k \in 1..Len(tried) : tried[k] = tier

Returned == pc = "done"

ReturnedSuccess == pc = "done" /\ result # <<>> /\ result[1]

\* C1: the tiers are started in the order platform API, embedded stream, burned-caption
\* OCR, speech transcription, each at most once; a tier is started only when every
\* earlier tier has failed or was skipped; a tier that succeeds is the last one started
\* and the run has returned (True, <that tier's mode>).
C1_TierOrder ==
  /\ \A i, j \in 1..Len(tried) : i < j => Rank(tried[i]) < Rank(tried[j])
  /\ \A j \in 1..Len(tried) : \A tier \in TierSet :
       Rank(tier) < Rank(tried[j]) => outcome[tier] \in {"failed", "skipped"}
  /\ \A tier \in TierSet :
       outcome[tier] = "ok" => /\ pc = "done"
                               /\ result = <<TRUE, tier>>
                               /\ tried # <<>>
                               /\ Last(tried) = tier
  /\ ReturnedSuccess => outcome[result[2]] = "ok"

C1_Witness ==
  /\ pc = "done"
  /\ result = <<TRUE, "ocr">>
  /\ tried = <<"bilibili_api", "embedded", "ocr">>

C3_NoIdSkipsPlatform ==
  /\ (pc # "start" /\ extract_bvid(video_url) = <<>> /\ extract_bvid(video_path) = <<>>)
       => /\ bvid = <<>>
          /\ outcome["bilibili_api"] = "skipped"
          /\ ~Started("bilibili_api")
          /\ spc = "idle"
          /\ attempts = <<>>
          /\ requests = 0
          /\ (tried = <<>> => pc = "embedded")
          /\ (tried # <<>> => tried[1] = "embedded")
  /\ (pc # "start" /\ extract_bvid(video_url) # <<>>) => bvid = extract_bvid(video_url)
  /\ (pc # "start" /\ bvid # <<>>) => (tried = <<>> => pc = "platform")

C3_Witness ==
  /\ video_url = UrlShort
  /\ video_path = PathBroken
  /\ bvid = <<>>
  /\ tried = <<"embedded", "ocr", "funasr">>

\* the case of C4: no platform id, no embedded stream, the detection gate not passed,
\* and a transcription that runs, yields at least one entry and meets no file error
C4_Case ==
  /\ bvid = <<>>
  /\ video = "no_sub"
  /\ burned \in {"capture_failed", "negative"}
  /\ asr_seen.kind = "ran"
  /\ asr_seen.writable
  /\ asr_seen.unlinked
  /\ asr_seen.entries >= 1

C5_NoEscape ==
  /\ pc # "raised"
  /\ Returned => (result = <<FALSE, "failed">>
                    <=> \A k \in 1..Len(tried) : outcome[tried[k]] = "failed")

\* C6: when the resolver returns success, the file at output_srt holds at least one entry.
C6_SuccessNonEmpty ==
  ReturnedSuccess => Len(outfile.rows) >= 1

\* the fetch script has exited with code 0
ScriptSuccess == spc = "exited" /\ exitcode = 0

\* C7: the entries a successful platform fetch has written are numbered 1, 2, ..., n.
C7_DenseIndex ==
  ScriptSuccess => \A i \in 1..Len(outfile.rows) : outfile.rows[i].index = i

\* C8: the entries a successful platform fetch has written are ordered by start time.
C8_OrderedByStart ==
  ScriptSuccess =>
    \A i \in 1..(Len(outfile.rows) - 1) :
      ParseMs(outfile.rows[i].start) <= ParseMs(outfile.rows[i + 1].start)

\* the browser list and the attempts the chain is to make, in order
ExpectedBrowsers(p) == <<p>> \o SelectSeq(DefaultBrowsers, LAMBDA b : b # p)

ExpectedPlan(p) ==
  LET eb == ExpectedBrowsers(p)
      n == Len(eb)
  IN  [i \in 1..(2 * n + 1) |->
         IF i <= n THEN <<1, eb[i]>>
         ELSE IF i <= 2 * n THEN <<2, eb[i - n]>>
         ELSE <<3, "-">>]

ChainReturned == spc \in {"checked", "fetch", "download", "exited"} /\ attempts # <<>>

\* C9: the attempts made so far are a prefix of: strategy 1 on every browser of the list,
\* strategy 2 on every browser, strategy 3; no (strategy, browser) pair occurs twice; every
\* attempt but the last has failed; after a successful attempt the chain has returned; the
\* list is the preferred browser followed by chrome, firefox, edge, safari without repetition.
C9_ChainOrder ==
  LET plan == ExpectedPlan(preferred)
  IN  /\ spc \in {"s1", "s2", "s3", "checked", "fetch"} => browsers = ExpectedBrowsers(preferred)
      /\ Len(attempts) <= Len(plan)
      /\ \A i \in 1..Len(attempts) : <<attempts[i].strategy, attempts[i].browser>> = plan[i]
      /\ \A i, j \in 1..Len(attempts) :
           i < j => <<attempts[i].strategy, attempts[i].browser>>
                      # <<attempts[j].strategy, attempts[j].browser>>
      /\ \A i \in 1..(Len(attempts) - 1) : ~attempts[i].ok
      /\ (attempts # <<>> /\ Last(attempts).ok) => ChainReturned
      /\ spc \in {"s1", "s2", "s3"} => Len(attempts) < Len(plan)
      /\ spc = "s1" => \A i \in 1..Len(attempts) : attempts[i].strategy = 1
      /\ spc = "s3" => Len(attempts) = Len(plan) - 1

C9_Witness ==
  /\ preferred = "opera"
  /\ Len(attempts) = 11
  /\ Last(attempts).ok
  /\ spc = "fetch"

\* C10: no exception leaves the credential chain; what it returns is the empty
\* credentials or holds a non-empty SESSDATA, and it is empty exactly when no attempt
\* yielded a session token.
C10_ChainTotal ==
  /\ spc # "raised"
  /\ ChainReturned =>
       /\ cookies = EmptyDict \/ Truthy(Get(cookies, "SESSDATA"))
       /\ cookies = EmptyDict <=> \A i \in 1..Len(attempts) : ~attempts[i].ok
       /\ cookies = EmptyDict => Len(attempts) = Len(ExpectedPlan(preferred))

C10_Witness ==
  /\ spc = "checked"
  /\ cookies = EmptyDict
  /\ elapsed >= YtdlpTimeout
  /\ Len(attempts) = 9

\* C11: a step that sends requests to the platform is taken only by a run whose
\* credential chain has returned credentials holding a non-empty SESSDATA; with empty
\* credentials the platform tier fails without a request, on every path into the tier.
C11_NoRequestWithoutToken ==
  [][requests' > requests => Truthy(Get(cookies, "SESSDATA"))]_vars

\* C12: whenever get_cookies_via_ytdlp has returned, the temporary cookie file it created
\* no longer exists, whatever the exit path (export succeeded, export empty, tool missing,
\* 30-second timeout, any other exception).
C12_NoCookieFileLeft == "cookies" \notin tmp

\* the position the preference rule names: the first listed track whose language code is
\* auto-generated Chinese or Simplified Chinese, else the first listed track
PreferredTrack(subs) ==
  LET zh == {i \in 1..Len(subs) : subs[i] \in {"ai-zh", "zh-Hans", "zh-CN", "zh"}}
  IN  IF zh # {} THEN Min(zh) ELSE 1

C14_FailureWritesNothing ==
  /\ spc # "raised"
  /\ (spc = "exited" /\ exitcode # 0) => outfile.by # "bilibili_api"

\* the full OCR extraction has started (it is running, or it has written the output)
ExtractionStarted ==
  \/ pc \in {"ocr_extract", "ocr_loop"}
  \/ outcome["ocr"] = "ok"
  \/ outfile.by = "ocr"
  \/ subtitles # <<>>
  \/ t # 0

NumberOf(confidence) ==
  IF confidence.type = "float" \/ (confidence.type = "str" /\ confidence.parsable)
  THEN confidence.val
  ELSE 0

\* the whole second sec as HH:MM:SS,mmm (sec < 60)
WholeSecond(sec) == [h |-> 0, m |-> 0, s |-> sec, ms |-> 0]

\* C16: every round of the extraction loop works on a sampled time t that is even and
\* below the whole-second duration; when the OCR pass returns, the round appends an entry
\* if and only if some detected line of the frame has a confidence strictly above 0.7,
\* that entry is numbered next, spans [t, t + 2] and its text is the confident texts
\* joined by a space in detection order, and the loop goes on to t + 2; a frame that
\* could not be captured adds no entry.  The loop starts at t = 0 with no entry, and the
\* file is written only when t has reached the duration, with the entries collected.
C16_EntryIffConfident ==
  [][/\ (pc = "ocr_extract" /\ pc' = "ocr_loop") => t' = 0 /\ subtitles' = <<>>
     /\ outfile' # outfile => t >= duration /\ outfile'.rows = subtitles
     /\ seen' # seen =>
       LET f == seen'[1]
           kept == SelectSeq(f.lines, LAMBDA l : l.present /\ NumberOf(l.conf) > 70)
       IN  /\ f.t = t
           /\ t % 2 = 0
           /\ t < duration
           /\ f.kind = "ok" =>
                /\ pc' = "ocr_loop"
                /\ t' = t + 2
                /\ kept = <<>> => subtitles' = subtitles
                /\ kept # <<>> =>
                     subtitles' = Append(subtitles,
                                         [index |-> Len(subtitles) + 1,
                                          start |-> WholeSecond(t),
                                          end   |-> WholeSecond(t + 2),
                                          text  |-> Join([i \in 1..Len(kept) |-> kept[i].text])])
           /\ f.kind = "capture_failed" => subtitles' = subtitles /\ t' = t + 2
    ]_vars

\* frame 0 gave no entry; frame 2 showed 0.81, then exactly 0.7, and gave entry 1
C16_Witness ==
  /\ pc = "ocr_loop"
  /\ seen # <<>>
  /\ seen[1].t = 2
  /\ seen[1].kind = "ok"
  /\ Len(seen[1].lines) = 2
  /\ seen[1].lines[1].text = <<"f">>
  /\ seen[1].lines[2].text = <<"e">>
  /\ Len(subtitles) = 1
  /\ subtitles[1].text = <<"f">>
  /\ subtitles[1].start = WholeSecond(2)

\* a line with its confidence handed over as the number it stands for
AsNumber(line) ==
  [line EXCEPT !.conf = [type |-> "float", parsable |-> TRUE, val |-> NumberOf(line.conf)]]

\* C17: a round of the loop does to a frame exactly what it does to the same frame with
\* every confidence handed over as a number (a numeric string as its value, anything
\* that is no number as 0.0): "0.81" and 0.81 both pass the threshold, a confidence that
\* cannot be coerced fails it, and the round neither raises nor ends the extraction
\* because of such a confidence.
C17_Coercion ==
  [][(seen' # seen /\ seen'[1].kind = "ok") =>
       LET lines == seen'[1].lines
           numeric == [i \in 1..Len(lines) |-> AsNumber(lines[i])]
       IN  /\ pc' = "ocr_loop"
           /\ outcome' = outcome
           /\ subtitles' = FrameEntry(subtitles, t, numeric)
           /\ \A i \in 1..Len(lines) :
                (lines[i].present /\ lines[i].conf.type = "str" /\ lines[i].conf.parsable)
                  => (ToFloat(lines[i].conf) > ConfThreshold <=> lines[i].conf.val > 70)
           /\ \A i \in 1..Len(lines) :
                (lines[i].conf.type = "none" \/ ~lines[i].conf.parsable)
                  => /\ ToFloat(lines[i].conf) = 0
                     /\ subtitles' # subtitles =>
                          ~IsInfix(lines[i].text, Last(subtitles').text)
    ]_vars

\* the frame showed "abc", then "0.81": the entry holds the second text only
C17_Witness ==
  /\ pc = "ocr_loop"
  /\ seen # <<>>
  /\ seen[1].kind = "ok"
  /\ Len(seen[1].lines) = 2
  /\ seen[1].lines[1].text = <<"x">>
  /\ seen[1].lines[2].text = <<"s">>
  /\ subtitles # <<>>
  /\ Last(subtitles).text = <<"s">>

\* C18: no temporary frame file is left: each is deleted before the next frame is
\* captured and before the detector, the extractor and the resolver return.
C18_NoFrameFileLeft == "frame" \notin tmp

\* C19: the scratch audio file of the transcription tier does not exist any more when
\* the tier has returned.
C19_NoAudioFileLeft == "audio" \notin tmp

\* the entries the reconstruction policy gives for one segment, by priority: the spans
\* that have text, each with its own start and end (milliseconds); else the splitter on
\* the text and the token timestamps; else the text from 00:00:00,000 to 00:00:00,000
PolicyEntries(res) ==
  LET text == Strip(res.text)
      spans == SelectSeq(res.sentence_info, LAMBDA sent : Strip(sent.text) # <<>>)
  IN  IF res.sentence_info # <<>>
      THEN [i \in 1..Len(spans) |->
              [text |-> Strip(spans[i].text), start_ms |-> spans[i].start, end_ms |-> spans[i].end]]
      ELSE IF res.timestamp # <<>> /\ text # <<>>
           THEN _split_text_by_punctuation(text, res.timestamp)
           ELSE IF text # <<>>
                THEN <<[text |-> text, start_ms |-> 0, end_ms |-> 0]>>
                ELSE <<>>

RECURSIVE PolicyAll(_)
PolicyAll(segs) ==
  IF segs = <<>> THEN <<>> ELSE PolicyEntries(Head(segs)) \o PolicyAll(Tail(segs))

\* C20: when the transcription has run and written its file, the file holds, numbered
\* in order and with their times formatted, the entries the policy gives for each
\* segment (spans first, else the splitter, else the bare text at 00:00:00,000), and
\* every segment whose text is not empty has given at least one entry.
C20_PolicyPerSegment ==
  (seen # <<>> /\ seen[1].kind = "ran" /\ seen[1].writable) =>
    LET segs == seen[1].segs
        entries == PolicyAll(segs)
    IN  /\ outfile.rows = [i \in 1..Len(entries) |->
                             [index |-> i,
                              start |-> format_timestamp(entries[i].start_ms * 10),
                              end   |-> format_timestamp(entries[i].end_ms * 10),
                              text  |-> entries[i].text]]
        /\ Len(outfile.rows) >= Cardinality({i \in 1..Len(segs) : Strip(segs[i].text) # <<>>})
        /\ \A i \in 1..Len(segs) : Strip(segs[i].text) # <<>> => PolicyEntries(segs[i]) # <<>>

\* C21..C30 follow; the formatter first, since the others read its output.

\* C24: for any non-negative duration a formatter yields a HH:MM:SS,mmm string (minutes
\* and seconds below 60, milliseconds below 1000) whose parsing gives back the duration's
\* milliseconds, truncated; and formatting the parsed value again yields the same string.
C24_RoundTrip ==
  /\ stamp.out # <<>> =>
       LET o == stamp.out[1]
       IN  /\ o.h >= 0
           /\ o.m \in 0..59
           /\ o.s \in 0..59
           /\ o.ms \in 0..999
           /\ ParseMs(o) = stamp.seconds \div 10
  /\ stamp.again # <<>> => stamp.again = stamp.out

\* the 40-character text of the example: a comma at position 26, a full stop at position 40
LongRun == Rep("a", 25) \o <<",">> \o Rep("a", 13) \o <<"U3002">>

\* C21: the splitter breaks after a character exactly when the character is sentence-ending
\* punctuation, or comma-class punctuation closing a run of more than 25 characters since
\* the last break, or the last character of the text; and on the 40-character text with a
\* comma at position 26 and its only terminal mark at position 40 it breaks at the comma.
C21_BreakRule ==
  /\ [](splitter.text = LongRun /\ splitter.char_idx >= 26 =>
          /\ Len(splitter.sentences) >= 1
          /\ splitter.sentences[1].text = SubSeq(LongRun, 1, 26))
  /\ [][splitter' # splitter =>
          LET i == splitter.char_idx
              char == splitter.text[i + 1]
              run == i + 1 - splitter.current_start_idx
              broke == splitter'.current_start_idx = i + 1 /\ splitter'.current_chars = <<>>
          IN  /\ broke <=>
                   \/ char \in {"U3002", "UFF01", "UFF1F", "!", "?", "UFF1B", ";", "U2026"}
                   \/ char \in {"UFF0C", ",", "U3001"} /\ run > 25
                   \/ i + 1 = Len(splitter.text)
              /\ ~broke =>
                   /\ splitter'.current_start_idx = splitter.current_start_idx
                   /\ splitter'.sentences = splitter.sentences]_vars

\* the splitter has just broken at the comma of the 40-character text
C21_Witness ==
  /\ splitter.text = LongRun
  /\ splitter.char_idx = 26
  /\ splitter.current_start_idx = 26
  /\ Len(splitter.sentences) = 1

\* floor(offset / text_length * timestamp_count), clamped to the last valid index (0-based)
ProportionalIndex(offset, text_length, timestamp_count) ==
  LET k == (offset * timestamp_count) \div text_length
  IN  IF k < timestamp_count - 1 THEN k ELSE timestamp_count - 1

\* the loop of the splitter has ended
SplitDone == splitter.text # <<>> /\ splitter.char_idx = Len(splitter.text)

\* the text has one sentence-ending mark, and it is its last character
SingleTerminal(text) ==
  {i \in 1..Len(text) : text[i] \in sentence_endings} = {Len(text)}

\* C22: each span produced by the splitter starts at the start of the timestamp whose
\* index is floor(first_char_offset / text_length * timestamp_count) and ends at the end
\* of the one whose index is floor(last_char_offset / text_length * timestamp_count), both
\* clamped to the last valid index; and with as many timestamps as characters and a single
\* terminal mark as last character, exactly one entry is produced and it ends at the last
\* character's timestamp.
C22_SpanMapping ==
  /\ [](SplitDone /\ Len(splitter.timestamps) = Len(splitter.text)
          /\ SingleTerminal(splitter.text) =>
            /\ Len(splitter.sentences) = 1
            /\ splitter.sentences[1].end_ms = Last(splitter.timestamps)[2])
  /\ [][Len(splitter'.sentences) > Len(splitter.sentences) /\ splitter.timestamps # <<>> =>
          LET n == Len(splitter.text)
              m == Len(splitter.timestamps)
              sent == Last(splitter'.sentences)
              first == ProportionalIndex(splitter.current_start_idx, n, m)
              last == ProportionalIndex(splitter.char_idx, n, m)
          IN  /\ first \in 0..(m - 1)
              /\ last \in 0..(m - 1)
              /\ sent.start_ms = splitter.timestamps[first + 1][1]
              /\ sent.end_ms = splitter.timestamps[last + 1][2]]_vars

\* each token starts no later than it ends and no earlier than the previous one ended
WellFormed(timestamps) ==
  /\ \A j \in 1..Len(timestamps) : timestamps[j][1] <= timestamps[j][2]
  /\ \A j \in 1..(Len(timestamps) - 1) : timestamps[j][2] <= timestamps[j + 1][1]

\* C27: on a well-formed token timestamp array the entries of the splitter never overlap
\* in time: every entry has start_ms <= end_ms, and every entry ends no later than the
\* next one starts, whatever the text length and the timestamp count.
C27_NoOverlap ==
  WellFormed(splitter.timestamps) =>
    /\ \A i \in 1..Len(splitter.sentences) :
         splitter.sentences[i].start_ms <= splitter.sentences[i].end_ms
    /\ \A i \in 1..(Len(splitter.sentences) - 1) :
         splitter.sentences[i].end_ms <= splitter.sentences[i + 1].start_ms

\* the texts of the entries, one after the other
RECURSIVE EntryTexts(_)
EntryTexts(sentences) ==
  IF sentences = <<>> THEN <<>> ELSE Head(sentences).text \o EntryTexts(Tail(sentences))

\* a text without its whitespace
NonSpace(text) == SelectSeq(text, LAMBDA c : ~IsSpace(c))

\* C28: the splitter loses and reorders no text.  The entries, in order, hold the
\* non-whitespace characters of the text read so far (with those of the open run), each
\* once; every entry is a piece of the input text without whitespace at its two ends,
\* and no entry is empty.
C28_TextPreserved ==
  /\ NonSpace(EntryTexts(splitter.sentences) \o splitter.current_chars)
       = NonSpace(SubSeq(splitter.text, 1, splitter.char_idx))
  /\ \A i \in 1..Len(splitter.sentences) :
       LET sent_text == splitter.sentences[i].text
       IN  /\ sent_text # <<>>
           /\ ~IsSpace(Head(sent_text))
           /\ ~IsSpace(Last(sent_text))
           /\ IsInfix(sent_text, splitter.text)

\* a text has been split in two entries and whitespace at a span boundary was dropped
C28_Witness ==
  /\ SplitDone
  /\ Len(splitter.sentences) = 2
  /\ Len(EntryTexts(splitter.sentences)) < Len(splitter.text)
  /\ NonSpace(splitter.text) # <<>>

\* the entries the transcription tier has written in this run
Produced == IF outfile.by = "funasr" THEN outfile.rows ELSE <<>>

\* C23: the transcription tier reports success if and only if at least one entry was
\* produced over all segments (zero entries is a failure of the tier), and the entries are
\* numbered on across the segments, in the order the model returned them.
C23_SuccessIffEntries ==
  seen # <<>> =>
    LET entries == PolicyAll(seen[1].segs)
    IN  /\ result[1] <=> Len(Produced) > 0
        /\ \A i \in 1..Len(Produced) : Produced[i].index = i
        /\ Len(Produced) > 0 =>
             [i \in 1..Len(Produced) |-> Produced[i].text]
               = [i \in 1..Len(entries) |-> entries[i].text]

\* C25: every external call of a resolver run carries a timeout, so the run always comes
\* to an end (it returns, or an exception ends it) even when an external tool never
\* responds.
C25_Terminates == <>(pc \in {"done", "raised"})

\* C29: inside the resolver's platform tier the 60-second limit on the fetch script never
\* cuts the credential chain off before it has attempted its last strategy: the script
\* is not killed while the chain is still at strategy 1, at strategy 2, or about to call
\* strategy 3.
C29_ChainReachesLast ==
  [][PlatformTimeout => spc \notin {"cookies", "s1", "s2", "s3"}]_vars

\* some tier of this run has written the output path
Written == outfile.by \in TierSet

\* C26: in one resolver run the output path is written at most once and by one tier: a
\* tier that has failed has left nothing of its own at the output path, nothing writes
\* the output path after a tier has succeeded, and no write comes after an earlier
\* write of the same run.
C26_WrittenOnce ==
  /\ [](\A tier \in TierSet : outcome[tier] = "failed" => outfile.by # tier)
  /\ [][/\ (\E tier \in TierSet : outcome[tier] = "ok") => outfile' = outfile
        /\ outfile' # outfile => ~Written]_vars

\* C30: whenever the resolver returns success with mode tag M, the content of the output
\* file at that moment is the content tier M wrote in this run.
C30_TagMatchesWriter ==
  ReturnedSuccess => outfile.by = result[2]

C30_Witness ==
  /\ pc = "done"
  /\ result = <<TRUE, "funasr">>
  /\ tried = <<"bilibili_api", "embedded", "ocr", "funasr">>
  /\ outfile.by = "funasr"
  /\ Len(outfile.rows) >= 1
====
